---- MODULE Spec2Model ----
(***************************************************************************)
(* Mesh storage of combustion_protocols: save_mesh_to_builder writes a     *)
(* data::Mesh into a Cap'n Proto mesh builder, load_mesh_from_reader reads *)
(* a data::Mesh back from a mesh reader.                                   *)
(*                                                                         *)
(* A 32-bit float is modelled by its bit pattern (a natural number), a     *)
(* byte blob by a sequence of bytes 0..255, a pointer read that can fail   *)
(* by a Result value Ok(v) / Err(e), and the protocol's Option(T) union by *)
(* None / Some(v) / NotInSchema (a discriminant the schema does not know). *)
(*                                                                         *)
(* The module also holds three more programs of the repository:            *)
(*   - round_multiple and clamp of combustion_common::num_utils;           *)
(*   - the primary thread of the engine (main), which forwards window      *)
(*     events to the render thread over a channel;                         *)
(*   - the render loop of the texture viewer (start), which drains its     *)
(*     signal channel, applies a resize, draws and parks.                  *)
(* Each program has its own variables and its own specification, which     *)
(* leaves the variables of the other programs as they are.                 *)
(***************************************************************************)
EXTENDS Integers, Sequences, FiniteSets, TLC

VARIABLES mesh, wire, origin, saveResult, loadResult, calls,
          numCall, numRet,
          pc, should_close, fullscreen, arrived, handled, effects, channel, render,
          vpc, rx, trace, viewport_size, viewport, resolution, texture_resolution,
          startResult

meshVars == <<mesh, wire, origin, saveResult, loadResult, calls>>
numVars == <<numCall, numRet>>
mainVars == <<pc, should_close, fullscreen, arrived, handled, effects, channel, render>>

viewerVars ==
    <<vpc, rx, trace, viewport_size, viewport, resolution, texture_resolution, startResult>>

vars == <<meshVars, numVars, mainVars, viewerVars>>

(***************************************************************************)
(* Bounds of the model.                                                    *)
(***************************************************************************)
MaxVerts == 2
MaxIndices == 2
MaxMaterials == 2
MaxInputs == 2
NumBits == 6
MaxOrd == 15
MaxEvents == 3
MaxSignals == 3
MaxFrames == 2

(***************************************************************************)
(* Result, Option and error values.                                        *)
(***************************************************************************)
Ok(v) == [tag |-> "Ok", val |-> v]
Err(e) == [tag |-> "Err", err |-> e]
None == [tag |-> "None"]
Some(v) == [tag |-> "Some", val |-> v]
NotInSchema(e) == [tag |-> "NotInSchema", err |-> e]

\* ProtocolError::InvalidLength, and a capnp error wrapped by try_throw!
InvalidLength == [kind |-> "InvalidLength", cause |-> "none"]
CodecError(e) == [kind |-> "Codec", cause |-> e]

Unit == <<>>

(***************************************************************************)
(* Record sizes: mem::size_of of the four element types, in bytes.         *)
(***************************************************************************)
F32Size == 4
PointSize == 12
VectorSize == 12
TexCoordSize == 8
VertexSize == 32

(***************************************************************************)
(* Native representation of an f32 and of the element types in memory.     *)
(* A Point3 / Vector3 is <<x, y, z>>, a TexCoord <<u, v>>, a Vertex the    *)
(* record of position, normal and uv, laid out in that order.              *)
(***************************************************************************)
F32Bytes(f) ==
    <<f % 256, (f \div 256) % 256, (f \div 65536) % 256, (f \div 16777216) % 256>>

\* faulty variant: the bytes read in the other byte order than they were written
F32FromBytes_swapped(b) == b[4] + 256 * b[3] + 65536 * b[2] + 16777216 * b[1]

F32FromBytes(b) == b[1] + 256 * b[2] + 65536 * b[3] + 16777216 * b[4]

VertexFloats(v) == v.position \o v.normal \o v.uv

\* the floats of a slice of elements, each element a sequence of n floats
SliceFloats(elems, n) ==
    [i \in 1..(n * Len(elems)) |-> elems[((i - 1) \div n) + 1][((i - 1) % n) + 1]]

\* the memory behind a slice of floats, byte by byte
FloatsMemory(fs) ==
    [i \in 1..(F32Size * Len(fs)) |-> F32Bytes(fs[((i - 1) \div F32Size) + 1])[((i - 1) % F32Size) + 1]]

\* slice::from_raw_parts(ptr as *const u8, len): the first len bytes at ptr
BytesOf(memory, len) == SubSeq(memory, 1, len)

\* the floats read back from n elements of size bytes each at the start of a blob
BlobFloats(blob, count) ==
    [i \in 1..count |-> F32FromBytes(SubSeq(blob, F32Size * (i - 1) + 1, F32Size * i))]

\* slice::from_raw_parts(ptr as *const T, num): num elements of k floats each
ElemsOf(blob, num, k) ==
    LET fs == BlobFloats(blob, num * k)
    IN  [i \in 1..num |-> SubSeq(fs, k * (i - 1) + 1, k * i)]

VertexOfFloats(fs) ==
    [position |-> SubSeq(fs, 1, 3), normal |-> SubSeq(fs, 4, 6), uv |-> SubSeq(fs, 7, 8)]

(***************************************************************************)
(* The conversion accessors of the point, vector and texcoord messages.    *)
(***************************************************************************)
set_point(p) == [x |-> p[1], y |-> p[2], z |-> p[3]]
get_point(m) == <<m.x, m.y, m.z>>
set_vector(v) == [x |-> v[1], y |-> v[2], z |-> v[3]]
get_vector(m) == <<m.x, m.y, m.z>>
set_texcoord(t) == [u |-> t[1], v |-> t[2]]
get_texcoord(m) == <<m.u, m.v>>

(***************************************************************************)
(* The mesh message as the builder holds it and the reader sees it.        *)
(*   indices   : Result of Option of Result of a list of u32               *)
(*   materials : Result of a list of materials                             *)
(*   vertices  : the four-way union, or NotInSchema                        *)
(***************************************************************************)
Message(indices, materials, vertices) ==
    [tag |-> "Message", indices |-> indices, materials |-> materials, vertices |-> vertices]

NoMessage == [tag |-> "NoMessage"]
Incomplete == [tag |-> "Incomplete"]
NoMesh == [tag |-> "NoMesh"]
NoResult == [tag |-> "NoResult"]
Panic == [tag |-> "Panic"]

\* a list of the length of seq whose element i is set from seq[i]
Copied(seq) == [i \in 1..Len(seq) |-> seq[i]]

(***************************************************************************)
(* save_mesh_to_builder                                                    *)
(***************************************************************************)
\* faulty variant: absent indices written as a present, empty list
save_indices_conflated(m) ==
    IF m.indices.tag = "Some"
    THEN Ok(Some(Ok(Copied(m.indices.val))))
    ELSE Ok(Some(Ok(<<>>)))

save_indices(m) ==
    IF m.indices.tag = "Some"
    THEN Ok(Some(Ok(Copied(m.indices.val))))
    ELSE Ok(None)

save_materials(m) == Ok(Copied(m.materials))

save_normals(normals) ==
    IF normals.tag = "Some"
    THEN Ok(Some(Ok([i \in 1..Len(normals.val) |-> set_vector(normals.val[i])])))
    ELSE Ok(None)

save_uvs(uvs) ==
    IF uvs.tag = "Some"
    THEN Ok(Some(Ok([i \in 1..Len(uvs.val) |-> set_texcoord(uvs.val[i])])))
    ELSE Ok(None)

save_discrete(vertices) ==
    [tag |-> "Discrete",
     val |-> Ok([positions |-> Ok([i \in 1..Len(vertices.positions) |-> set_point(vertices.positions[i])]),
                 normals |-> save_normals(vertices.normals),
                 uvs |-> save_uvs(vertices.uvs)])]

save_vertex(vertex) ==
    [position |-> Ok(set_point(vertex.position)),
     normal |-> Ok(set_vector(vertex.normal)),
     uv |-> Ok(set_texcoord(vertex.uv))]

save_interleaved(vertices) ==
    [tag |-> "Interleaved", val |-> Ok([i \in 1..Len(vertices) |-> save_vertex(vertices[i])])]

\* the blob written for a vector of elements of k floats and size bytes each
raw_blob(elems, k, size) ==
    BytesOf(FloatsMemory(SliceFloats(elems, k)), Len(elems) * size)

\* faulty variant: an absent attribute written as a present, empty blob
save_option_blob_always_some(opt, k, size) ==
    IF opt.tag = "Some" THEN Ok(Some(Ok(raw_blob(opt.val, k, size)))) ELSE Ok(Some(Ok(<<>>)))

save_option_blob(opt, k, size) ==
    IF opt.tag = "Some" THEN Ok(Some(Ok(raw_blob(opt.val, k, size)))) ELSE Ok(None)

save_discrete_raw(vertices) ==
    [tag |-> "DiscreteRaw",
     val |-> Ok([positions |-> Ok(raw_blob(vertices.positions, 3, PointSize)),
                 normals |-> save_option_blob(vertices.normals, 3, VectorSize),
                 uvs |-> save_option_blob(vertices.uvs, 2, TexCoordSize)])]

\* faulty variant: the blob length computed with the size of a Point3 instead of a Vertex
save_interleaved_raw_point_size(vertices) ==
    [tag |-> "InterleavedRaw",
     val |-> Ok(BytesOf(FloatsMemory(SliceFloats([i \in 1..Len(vertices) |-> VertexFloats(vertices[i])], 8)),
                        Len(vertices) * PointSize))]

save_interleaved_raw(vertices) ==
    [tag |-> "InterleavedRaw",
     val |-> Ok(BytesOf(FloatsMemory(SliceFloats([i \in 1..Len(vertices) |-> VertexFloats(vertices[i])], 8)),
                        Len(vertices) * VertexSize))]

\* faulty variant: the raw flag ignored for a Discrete mesh
save_arm_ignoring_raw(mv, raw) ==
    IF mv.tag = "Discrete" THEN "Discrete"
    ELSE IF mv.tag = "Interleaved" /\ raw = FALSE THEN "Interleaved"
    ELSE IF mv.tag = "Interleaved" /\ raw = TRUE THEN "InterleavedRaw"
    ELSE "unreachable"

\* faulty variant: the arm of an Interleaved mesh with raw = TRUE left out
save_arm_three_arms(mv, raw) ==
    IF mv.tag = "Discrete" /\ raw = FALSE THEN "Discrete"
    ELSE IF mv.tag = "Interleaved" /\ raw = FALSE THEN "Interleaved"
    ELSE IF mv.tag = "Discrete" /\ raw = TRUE THEN "DiscreteRaw"
    ELSE "unreachable"

\* the match on (mesh.vertices, raw): the arm taken
save_arm(mv, raw) ==
    IF mv.tag = "Discrete" /\ raw = FALSE THEN "Discrete"
    ELSE IF mv.tag = "Interleaved" /\ raw = FALSE THEN "Interleaved"
    ELSE IF mv.tag = "Discrete" /\ raw = TRUE THEN "DiscreteRaw"
    ELSE IF mv.tag = "Interleaved" /\ raw = TRUE THEN "InterleavedRaw"
    ELSE "unreachable"

save_vertices(mv, raw) ==
    LET arm == save_arm(mv, raw)
    IN  IF arm = "Discrete" THEN save_discrete(mv)
        ELSE IF arm = "Interleaved" THEN save_interleaved(mv.vertices)
        ELSE IF arm = "DiscreteRaw" THEN save_discrete_raw(mv)
        ELSE IF arm = "InterleavedRaw" THEN save_interleaved_raw(mv.vertices)
        ELSE Panic

\* the try_throw! of set_some in the DiscreteRaw arm: the first failing write.
\* The function returns there; what the builder then holds is left open
\* (Incomplete) and is not read back.
save_write_error(mesh_builder, mv, raw) ==
    IF save_arm(mv, raw) # "DiscreteRaw" THEN "none"
    ELSE IF mv.normals.tag = "Some" /\ "normals" \in mesh_builder.set_some_fails THEN "normals"
    ELSE IF mv.uvs.tag = "Some" /\ "uvs" \in mesh_builder.set_some_fails THEN "uvs"
    ELSE "none"

\* faulty variant: the materials moved out of the mesh while they are written
save_borrowed_drained(m) == [m EXCEPT !.materials = <<>>]

\* the mesh the caller still holds after the call: borrowed as &data::Mesh
save_borrowed(m) == m

save_mesh_to_builder(mesh_builder, m, raw) ==
    LET failed == save_write_error(mesh_builder, m.vertices, raw)
        vertices == save_vertices(m.vertices, raw)
    IN  IF vertices = Panic
        THEN [result |-> Panic, builder |-> Incomplete, mesh |-> save_borrowed(m)]
        ELSE IF failed # "none"
        THEN [result |-> Err(CodecError(failed)), builder |-> Incomplete,
              mesh |-> save_borrowed(m)]
        ELSE [result |-> Ok(Unit),
              builder |-> Message(save_indices(m), save_materials(m), vertices),
              mesh |-> save_borrowed(m)]

(***************************************************************************)
(* load_mesh_from_reader                                                   *)
(***************************************************************************)
collect_indices(list) == Ok(Copied(list))

load_points(list) == Ok([i \in 1..Len(list) |-> get_point(list[i])])
load_vectors(list) == Ok([i \in 1..Len(list) |-> get_vector(list[i])])
load_texcoords(list) == Ok([i \in 1..Len(list) |-> get_texcoord(list[i])])

\* faulty variant: no length check, the trailing bytes dropped
load_blob_unchecked(data, size, k) == Ok(ElemsOf(data, Len(data) \div size, k))

\* the length check and the cast of a blob to a slice of elements of k floats
load_blob(data, size, k) ==
    IF Len(data) % size # 0 THEN Err(InvalidLength)
    ELSE Ok(ElemsOf(data, Len(data) \div size, k))

load_raw_vertices(data) ==
    LET elems == load_blob(data, VertexSize, 8)
    IN  IF elems.tag = "Err" THEN elems
        ELSE Ok([i \in 1..Len(elems.val) |-> VertexOfFloats(elems.val[i])])

load_raw_points(data) == load_blob(data, PointSize, 3)
load_raw_vectors(data) == load_blob(data, VectorSize, 3)

\* faulty variant: the uvs blob checked against the size of a Point3
load_raw_texcoords_point_size(data) ==
    IF Len(data) % PointSize # 0 THEN Err(InvalidLength)
    ELSE Ok(ElemsOf(data, Len(data) \div TexCoordSize, 2))

load_raw_texcoords(data) == load_blob(data, TexCoordSize, 2)

\* the decoder of the payload of an optional field
load_payload(field, payload) ==
    CASE field = "indices" -> collect_indices(payload)
      [] field = "normals" -> load_vectors(payload)
      [] field = "uvs" -> load_texcoords(payload)
      [] field = "raw_normals" -> load_raw_vectors(payload)
      [] field = "raw_uvs" -> load_raw_texcoords(payload)

\* faulty variant: a tag the schema does not know falls into the wildcard arm
load_option_wildcard(opt, field) ==
    IF opt.tag = "Some"
    THEN IF opt.val.tag = "Err" THEN Err(CodecError(opt.val.err))
         ELSE LET decoded == load_payload(field, opt.val.val)
              IN  IF decoded.tag = "Err" THEN decoded ELSE Ok(Some(decoded.val))
    ELSE Ok(None)

\* match try_throw!(option.which()) { Some(x) => Some(decode(try_throw!(x))), _ => None }
load_option(opt, field) ==
    IF opt.tag = "NotInSchema" THEN Err(CodecError(opt.err))
    ELSE IF opt.tag = "Some"
    THEN IF opt.val.tag = "Err" THEN Err(CodecError(opt.val.err))
         ELSE LET decoded == load_payload(field, opt.val.val)
              IN  IF decoded.tag = "Err" THEN decoded ELSE Ok(Some(decoded.val))
    ELSE Ok(None)

load_indices(mesh_reader) ==
    IF mesh_reader.indices.tag = "Err" THEN Err(CodecError(mesh_reader.indices.err))
    ELSE load_option(mesh_reader.indices.val, "indices")

load_materials(mesh_reader) ==
    IF mesh_reader.materials.tag = "Err" THEN Err(CodecError(mesh_reader.materials.err))
    ELSE Ok(Copied(mesh_reader.materials.val))

\* the first try_throw! that fails while reading one vertex of the list
vertex_error(vertex) ==
    IF vertex.position.tag = "Err" THEN vertex.position.err
    ELSE IF vertex.normal.tag = "Err" THEN vertex.normal.err
    ELSE IF vertex.uv.tag = "Err" THEN vertex.uv.err
    ELSE "none"

load_vertex(vertex) ==
    [position |-> get_point(vertex.position.val),
     normal |-> get_vector(vertex.normal.val),
     uv |-> get_texcoord(vertex.uv.val)]

Interleaved(vertices) == [tag |-> "Interleaved", vertices |-> vertices]

Discrete(positions, normals, uvs) ==
    [tag |-> "Discrete", positions |-> positions, normals |-> normals, uvs |-> uvs]

load_interleaved(vertices) ==
    IF vertices.tag = "Err" THEN Err(CodecError(vertices.err))
    ELSE LET list == vertices.val
             bad == {i \in 1..Len(list) : vertex_error(list[i]) # "none"}
         IN  IF bad # {}
             THEN Err(CodecError(vertex_error(list[CHOOSE i \in bad : \A j \in bad : i <= j])))
             ELSE Ok(Interleaved([i \in 1..Len(list) |-> load_vertex(list[i])]))

\* faulty variant: normals and uvs of another length than the positions rejected
load_discrete_strict(vertices) ==
    IF vertices.tag = "Err" THEN Err(CodecError(vertices.err))
    ELSE LET v == vertices.val
         IN  IF v.positions.tag = "Err" THEN Err(CodecError(v.positions.err))
             ELSE IF v.normals.tag = "Err" THEN Err(CodecError(v.normals.err))
             ELSE IF v.uvs.tag = "Err" THEN Err(CodecError(v.uvs.err))
             ELSE LET positions == load_points(v.positions.val)
                      normals == load_option(v.normals.val, "normals")
                      uvs == load_option(v.uvs.val, "uvs")
                  IN  IF normals.tag = "Err" THEN normals
                      ELSE IF uvs.tag = "Err" THEN uvs
                      ELSE IF normals.val.tag = "Some" /\ Len(normals.val.val) # Len(positions.val)
                      THEN Err(InvalidLength)
                      ELSE IF uvs.val.tag = "Some" /\ Len(uvs.val.val) # Len(positions.val)
                      THEN Err(InvalidLength)
                      ELSE Ok(Discrete(positions.val, normals.val, uvs.val))

load_discrete(vertices) ==
    IF vertices.tag = "Err" THEN Err(CodecError(vertices.err))
    ELSE LET v == vertices.val
         IN  IF v.positions.tag = "Err" THEN Err(CodecError(v.positions.err))
             ELSE IF v.normals.tag = "Err" THEN Err(CodecError(v.normals.err))
             ELSE IF v.uvs.tag = "Err" THEN Err(CodecError(v.uvs.err))
             ELSE LET positions == load_points(v.positions.val)
                      normals == load_option(v.normals.val, "normals")
                      uvs == load_option(v.uvs.val, "uvs")
                  IN  IF normals.tag = "Err" THEN normals
                      ELSE IF uvs.tag = "Err" THEN uvs
                      ELSE Ok(Discrete(positions.val, normals.val, uvs.val))

load_interleaved_raw(vertices_data) ==
    IF vertices_data.tag = "Err" THEN Err(CodecError(vertices_data.err))
    ELSE LET vertices == load_raw_vertices(vertices_data.val)
         IN  IF vertices.tag = "Err" THEN vertices ELSE Ok(Interleaved(vertices.val))

load_discrete_raw(vertices) ==
    IF vertices.tag = "Err" THEN Err(CodecError(vertices.err))
    ELSE LET v == vertices.val
         IN  IF v.positions.tag = "Err" THEN Err(CodecError(v.positions.err))
             ELSE IF v.normals.tag = "Err" THEN Err(CodecError(v.normals.err))
             ELSE IF v.uvs.tag = "Err" THEN Err(CodecError(v.uvs.err))
             ELSE LET positions == load_raw_points(v.positions.val)
                      normals == load_option(v.normals.val, "raw_normals")
                      uvs == load_option(v.uvs.val, "raw_uvs")
                  IN  IF positions.tag = "Err" THEN positions
                      ELSE IF normals.tag = "Err" THEN normals
                      ELSE IF uvs.tag = "Err" THEN uvs
                      ELSE Ok(Discrete(positions.val, normals.val, uvs.val))

load_vertices(vertices_reader) ==
    IF vertices_reader.tag = "NotInSchema" THEN Err(CodecError(vertices_reader.err))
    ELSE IF vertices_reader.tag = "Interleaved" THEN load_interleaved(vertices_reader.val)
    ELSE IF vertices_reader.tag = "Discrete" THEN load_discrete(vertices_reader.val)
    ELSE IF vertices_reader.tag = "InterleavedRaw" THEN load_interleaved_raw(vertices_reader.val)
    ELSE load_discrete_raw(vertices_reader.val)

Mesh(vertices, indices, materials) ==
    [vertices |-> vertices, indices |-> indices, materials |-> materials]

\* faulty variant: a failure of the vertices returns the indices and materials read so far
load_mesh_from_reader_partial(mesh_reader) ==
    LET indices == load_indices(mesh_reader)
        materials == load_materials(mesh_reader)
        vertices == load_vertices(mesh_reader.vertices)
    IN  IF indices.tag = "Err" THEN indices
        ELSE IF materials.tag = "Err" THEN materials
        ELSE IF vertices.tag = "Err"
        THEN [tag |-> "Err", err |-> vertices.err,
              val |-> [indices |-> indices.val, materials |-> materials.val]]
        ELSE Ok(Mesh(vertices.val, indices.val, materials.val))

\* faulty variant: the vertices decoded and checked before the indices and materials
load_mesh_from_reader_vertices_first(mesh_reader) ==
    LET indices == load_indices(mesh_reader)
        materials == load_materials(mesh_reader)
        vertices == load_vertices(mesh_reader.vertices)
    IN  IF vertices.tag = "Err" THEN vertices
        ELSE IF indices.tag = "Err" THEN indices
        ELSE IF materials.tag = "Err" THEN materials
        ELSE Ok(Mesh(vertices.val, indices.val, materials.val))

load_mesh_from_reader(mesh_reader) ==
    LET indices == load_indices(mesh_reader)
        materials == load_materials(mesh_reader)
        vertices == load_vertices(mesh_reader.vertices)
    IN  IF indices.tag = "Err" THEN indices
        ELSE IF materials.tag = "Err" THEN materials
        ELSE IF vertices.tag = "Err" THEN vertices
        ELSE Ok(Mesh(vertices.val, indices.val, materials.val))

(***************************************************************************)
(* Inputs: the meshes a caller saves and the messages a reader is given.   *)
(***************************************************************************)
SeqsUpTo(S, n) == UNION {[1..k -> S] : k \in 0..n}

OptionsOf(S) == {None} \cup {Some(x) : x \in S}

\* f32 bit patterns: 0.0, 0.5, 1.0, 2.0, 3.0 and pi (0x40490FDB)
F32(exponent, mantissa) == exponent * 8388608 + mantissa
F0 == F32(0, 0)
FHalf == F32(126, 0)
F1 == F32(127, 0)
F2 == F32(128, 0)
F3 == F32(128, 4194304)
FPi == F32(128, 4788187)

SamplePoints == {<<FPi, F0, FHalf>>}
SampleVectors == {<<F2, FPi, F3>>}
SampleTexCoords == {<<F1, FPi>>}
SampleVertices ==
    {[position |-> <<F1, F2, F3>>, normal |-> <<F0, F0, F1>>, uv |-> <<FHalf, FHalf>>],
     [position |-> <<FPi, F0, FHalf>>, normal |-> <<F2, FPi, F3>>, uv |-> <<F1, FPi>>]}
SampleIndices == {0, 7}
SampleMaterials == {2}

MeshVerticesSet ==
    {Interleaved(vs) : vs \in SeqsUpTo(SampleVertices, MaxVerts)}
    \cup {Discrete(ps, ns, ts) : ps \in SeqsUpTo(SamplePoints, MaxVerts),
                                 ns \in OptionsOf(SeqsUpTo(SampleVectors, MaxVerts)),
                                 ts \in OptionsOf(SeqsUpTo(SampleTexCoords, MaxVerts))}

Meshes ==
    {Mesh(v, i, m) : v \in MeshVerticesSet,
                     i \in OptionsOf(SeqsUpTo(SampleIndices, MaxIndices)),
                     m \in SeqsUpTo(SampleMaterials, MaxMaterials)}

\* write views: the set_some calls that fail on them
Builders == {[set_some_fails |-> f] : f \in SUBSET {"normals", "uvs"}}

\* messages from outside: any field may be malformed, any blob of any length
TailLens == {0, 17}
Junk(n) == [i \in 1..n |-> 1]

ResultsOf(S, e) == {Err(e)} \cup {Ok(x) : x \in S}
WireOptionsOf(S, e) ==
    {NotInSchema(e \o ".which"), None, Some(Err(e \o ".some"))} \cup {Some(Ok(x)) : x \in S}

ExtBlobs(elemSeqs, k, size) ==
    {raw_blob(es, k, size) \o Junk(t) : es \in elemSeqs, t \in TailLens}

OnePoint == {<<F1, F2, F3>>}
OneVector == {<<F0, F0, F1>>}
OneTexCoord == {<<FHalf, F1>>}
OneVertex == {[position |-> <<F1, F2, F3>>, normal |-> <<F0, F0, F1>>, uv |-> <<FHalf, F1>>]}

ExtVertexMsgs ==
    {save_vertex(v) : v \in OneVertex}
    \cup {[save_vertex(v) EXCEPT ![f] = Err("vertex." \o f)] :
              v \in OneVertex, f \in {"position", "normal", "uv"}}

ExtIndices ==
    ResultsOf(WireOptionsOf({<<>>, <<0, 7>>}, "indices"), "indices")

ExtMaterials == ResultsOf({<<>>, <<1, 2>>}, "materials")

ExtVertices ==
    {NotInSchema("vertices.which")}
    \cup {[tag |-> "Interleaved", val |-> l] :
              l \in ResultsOf(SeqsUpTo(ExtVertexMsgs, MaxVerts), "interleaved")}
    \cup {[tag |-> "Discrete", val |-> d] :
              d \in ResultsOf(
                  [positions : ResultsOf({[i \in 1..Len(ps) |-> set_point(ps[i])] : ps \in SeqsUpTo(OnePoint, MaxVerts)},
                                         "positions"),
                   normals : ResultsOf(WireOptionsOf(
                                 {[i \in 1..Len(ns) |-> set_vector(ns[i])] : ns \in SeqsUpTo(OneVector, MaxVerts)},
                                 "normals"), "normals"),
                   uvs : ResultsOf(WireOptionsOf(
                                 {[i \in 1..Len(ts) |-> set_texcoord(ts[i])] : ts \in SeqsUpTo(OneTexCoord, MaxVerts)},
                                 "uvs"), "uvs")],
                  "discrete")}
    \cup {[tag |-> "InterleavedRaw", val |-> b] :
              b \in ResultsOf(ExtBlobs({[i \in 1..Len(vs) |-> VertexFloats(vs[i])] : vs \in SeqsUpTo(OneVertex, MaxVerts)},
                                       8, VertexSize), "interleaved_raw")}
    \cup {[tag |-> "DiscreteRaw", val |-> d] :
              d \in ResultsOf(
                  [positions : ResultsOf(ExtBlobs(SeqsUpTo(OnePoint, MaxVerts), 3, PointSize),
                                         "positions"),
                   normals : ResultsOf(WireOptionsOf(
                                 ExtBlobs(SeqsUpTo(OneVector, MaxVerts), 3, VectorSize),
                                 "normals"), "normals"),
                   uvs : ResultsOf(WireOptionsOf(
                                 ExtBlobs(SeqsUpTo(OneTexCoord, MaxVerts), 2, TexCoordSize),
                                 "uvs"), "uvs")],
                  "discrete_raw")}

ExternalMessages ==
    {Message(i, m, v) : i \in ExtIndices, m \in ExtMaterials, v \in ExtVertices}

(***************************************************************************)
(* combustion_common::num_utils: round_multiple and ClampExt::clamp.       *)
(* round_multiple is generic over T: Num + Copy; T is modelled as an       *)
(* unsigned integer type of NumBits bits.  An arithmetic overflow panics   *)
(* in a build with overflow checks and wraps in a build without them; a    *)
(* division by zero panics in every build.                                 *)
(***************************************************************************)
TMax == 2 ^ NumBits - 1

Returned(v) == [tag |-> "Returned", val |-> v]

Wrap(x) == x % (TMax + 1)

\* faulty variant: rounds down
round_multiple_down(num, multiple, overflow_checks) ==
    IF multiple = 0 THEN Panic ELSE Returned((num \div multiple) * multiple)

\* ((num + multiple - T::one()) / multiple) * multiple
round_multiple(num, multiple, overflow_checks) ==
    LET sum == num + multiple
        dec == Wrap(sum) - 1
        quo == Wrap(dec) \div multiple
        prod == quo * multiple
    IN  IF overflow_checks /\ sum > TMax THEN Panic
        ELSE IF overflow_checks /\ dec < 0 THEN Panic
        ELSE IF multiple = 0 THEN Panic
        ELSE IF overflow_checks /\ prod > TMax THEN Panic
        ELSE Returned(Wrap(prod))

\* faulty variant: only the lower bound applied
clamp_lower_only(self, min, max) ==
    IF self < min THEN Returned(min) ELSE Returned(self)

\* if self < min { min } else if self > max { max } else { self }
clamp(self, min, max) ==
    IF self < min THEN Returned(min)
    ELSE IF self > max THEN Returned(max)
    ELSE Returned(self)

NoCall == [fn |-> "none"]

RoundMultipleCalls ==
    [fn : {"round_multiple"}, num : 0..TMax, multiple : 0..TMax, overflow_checks : BOOLEAN]

ClampCalls ==
    [fn : {"clamp"}, self : 0..MaxOrd, min : 0..MaxOrd, max : 0..MaxOrd]

NumIdle ==
    /\ numCall = NoCall
    /\ numRet = NoResult

(***************************************************************************)
(* The state machine: a caller holds either a mesh and a write view, or a  *)
(* message to read.  mesh is the caller's Mesh, wire the message in the    *)
(* builder or behind the reader, origin where wire came from (with the     *)
(* arguments of the save that wrote it), saveResult and loadResult the     *)
(* values the two functions returned.                                      *)
(***************************************************************************)
NoCalls == [save |-> {}, load |-> {}]

\* `width as u32`: the 32 bits of an i32 read as an unsigned number, written
\* as its upper and lower 16 bits
as_u32(x) ==
    IF x >= 0 THEN <<x \div 65536, x % 65536>>
    ELSE <<32768 + ((x + 2147483647) + 1) \div 65536, ((x + 2147483647) + 1) % 65536>>

\* one pass of the render loop starts: let mut viewport_size = None
Begin == [op |-> "begin"]

\* the texture viewer's start when it enters 'render
ViewerStart ==
    /\ vpc = "drain"
    /\ rx = <<>>
    /\ trace = <<Begin>>
    /\ viewport_size = None
    /\ viewport = None
    /\ resolution = <<as_u32(600), as_u32(800)>>
    /\ texture_resolution = <<as_u32(0), as_u32(0)>>
    /\ startResult = NoResult

\* main after the render thread was started
MainStart ==
    /\ pc = "loop"
    /\ should_close = FALSE
    /\ fullscreen = FALSE
    /\ arrived = <<>>
    /\ handled = 0
    /\ effects = <<>>
    /\ channel = <<>>
    /\ render = "running"

MeshIdle ==
    /\ mesh = NoMesh
    /\ wire = NoMessage
    /\ origin = [tag |-> "none"]
    /\ saveResult = NoResult
    /\ loadResult = NoResult
    /\ calls = NoCalls

Init == MeshIdle /\ NumIdle /\ MainStart /\ ViewerStart

\* the caller builds a mesh and takes a fresh write view
MakeMesh ==
    /\ mesh = NoMesh
    /\ wire = NoMessage
    /\ \E m \in Meshes :
        /\ mesh' = m
        /\ wire' = NoMessage
        /\ origin' = [tag |-> "none"]
        /\ saveResult' = NoResult
        /\ loadResult' = NoResult
    /\ UNCHANGED calls

\* save_mesh_to_builder(mesh_builder, &mesh, raw): what the call leaves behind
SaveCall(mesh_builder, raw) ==
    LET out == save_mesh_to_builder(mesh_builder, mesh, raw)
    IN  /\ mesh # NoMesh
        /\ mesh' = out.mesh
        /\ wire' = out.builder
        /\ origin' = [tag |-> "saved", mesh |-> mesh, raw |-> raw]
        /\ saveResult' = out.result
        /\ loadResult' = NoResult

Save ==
    /\ \E raw \in BOOLEAN, mesh_builder \in Builders : SaveCall(mesh_builder, raw)
    /\ UNCHANGED calls

\* the caller is handed a message read from a file or the network
Receive ==
    /\ mesh = NoMesh
    /\ wire = NoMessage
    /\ \E msg \in ExternalMessages :
        /\ mesh' = NoMesh
        /\ wire' = msg
        /\ origin' = [tag |-> "external"]
        /\ saveResult' = NoResult
        /\ loadResult' = NoResult
    /\ UNCHANGED calls

\* faulty variant: a mesh decoded by an earlier call is kept and returned again
LoadCall_cached ==
    /\ wire.tag = "Message"
    /\ loadResult' = IF loadResult.tag = "Ok" THEN loadResult ELSE load_mesh_from_reader(wire)
    /\ UNCHANGED <<mesh, wire, origin, saveResult>>

\* load_mesh_from_reader(mesh_reader): what the call leaves behind
LoadCall ==
    /\ wire.tag = "Message"
    /\ loadResult' = load_mesh_from_reader(wire)
    /\ UNCHANGED <<mesh, wire, origin, saveResult>>

Load == LoadCall /\ UNCHANGED calls

\* the caller drops the mesh, the message and the results it holds
Drop ==
    /\ mesh # NoMesh \/ wire # NoMessage
    /\ mesh' = NoMesh
    /\ wire' = NoMessage
    /\ origin' = [tag |-> "none"]
    /\ saveResult' = NoResult
    /\ loadResult' = NoResult
    /\ UNCHANGED calls

Next ==
    \/ MakeMesh /\ UNCHANGED <<numVars, mainVars, viewerVars>>
    \/ Save /\ UNCHANGED <<numVars, mainVars, viewerVars>>
    \/ Receive /\ UNCHANGED <<numVars, mainVars, viewerVars>>
    \/ Load /\ UNCHANGED <<numVars, mainVars, viewerVars>>
    \/ Drop /\ UNCHANGED <<numVars, mainVars, viewerVars>>

Spec == Init /\ [][Next]_vars

(***************************************************************************)
(* Sequences of calls: the caller keeps what earlier calls returned while  *)
(* it makes the next one, on a few meshes and messages, and calls records  *)
(* every call made with its arguments, what it returned, and whether the   *)
(* same arguments had been used before.  At most MaxInputs different       *)
(* argument lists are recorded.                                            *)
(***************************************************************************)
ProbeVertex == [position |-> <<F1, F2, F3>>, normal |-> <<F0, F0, F1>>, uv |-> <<FHalf, F1>>]

ProbeMeshes ==
    {Mesh(Interleaved(<<ProbeVertex>>), Some(<<7>>), <<2>>),
     Mesh(Discrete(<<<<FPi, F0, FHalf>>>>, Some(<<<<F2, FPi, F3>>>>), None), None, <<>>)}

ProbeBuilders == {[set_some_fails |-> {}], [set_some_fails |-> {"normals", "uvs"}]}

ProbeMessages ==
    {Message(Ok(None), Ok(<<1, 2>>),
             [tag |-> "InterleavedRaw", val |-> Ok(raw_blob(<<VertexFloats(ProbeVertex)>>, 8, VertexSize))]),
     Message(Ok(Some(Ok(<<0, 7>>))), Ok(<<>>),
             [tag |-> "InterleavedRaw", val |-> Ok(Junk(17))]),
     Message(Ok(None), Err("materials"), NotInSchema("vertices.which"))}

Inputs(c) == {x.input : x \in c.save} \cup {<<x.input>> : x \in c.load}

NextMesh ==
    /\ \E m \in ProbeMeshes : mesh' = m
    /\ UNCHANGED <<wire, origin, saveResult, loadResult, calls>>

NextMessage ==
    /\ \E msg \in ProbeMessages : wire' = msg
    /\ origin' = [tag |-> "external"]
    /\ UNCHANGED <<mesh, saveResult, loadResult, calls>>

SaveLogged ==
    \E raw \in BOOLEAN, mesh_builder \in ProbeBuilders :
        /\ SaveCall(mesh_builder, raw)
        /\ calls' = [calls EXCEPT !.save = @ \cup
                        {[input |-> <<mesh_builder, mesh, raw>>,
                          result |-> <<saveResult', wire', mesh'>>,
                          again |-> <<mesh_builder, mesh, raw>> \in Inputs(calls)]}]
        /\ Cardinality(Inputs(calls')) <= MaxInputs

LoadLogged ==
    /\ LoadCall
    /\ calls' = [calls EXCEPT !.load = @ \cup
                    {[input |-> wire, result |-> loadResult', again |-> <<wire>> \in Inputs(calls)]}]
    /\ Cardinality(Inputs(calls')) <= MaxInputs

NextCalls ==
    \/ NextMesh /\ UNCHANGED <<numVars, mainVars, viewerVars>>
    \/ NextMessage /\ UNCHANGED <<numVars, mainVars, viewerVars>>
    \/ SaveLogged /\ UNCHANGED <<numVars, mainVars, viewerVars>>
    \/ LoadLogged /\ UNCHANGED <<numVars, mainVars, viewerVars>>

SpecCalls == Init /\ [][NextCalls]_vars

(***************************************************************************)
(* Calls of the numeric helpers: a caller calls round_multiple or clamp    *)
(* once with arguments of its choice.                                      *)
(***************************************************************************)
\* a caller is about to call one of the two functions with some arguments
InitNum ==
    /\ MeshIdle
    /\ numCall \in RoundMultipleCalls \cup ClampCalls
    /\ numRet = NoResult
    /\ MainStart
    /\ ViewerStart

RoundMultiple ==
    /\ numCall.fn = "round_multiple"
    /\ numRet = NoResult
    /\ numRet' = round_multiple(numCall.num, numCall.multiple, numCall.overflow_checks)
    /\ UNCHANGED numCall

Clamp ==
    /\ numCall.fn = "clamp"
    /\ numRet = NoResult
    /\ numRet' = clamp(numCall.self, numCall.min, numCall.max)
    /\ UNCHANGED numCall

NextNum ==
    \/ RoundMultiple /\ UNCHANGED <<meshVars, mainVars, viewerVars>>
    \/ Clamp /\ UNCHANGED <<meshVars, mainVars, viewerVars>>

SpecNum == InitNum /\ [][NextNum]_vars

(***************************************************************************)
(* main: the primary thread.  It has started the render thread, which owns *)
(* the receiving end of the channel, and then loops: wait for window       *)
(* events, handle the events that arrived, until the window should close;  *)
(* then it signals Stop and joins the render thread.                       *)
(*                                                                         *)
(* effects is the list of the calls main has made so far, channel the      *)
(* signals delivered to the render thread.  A send fails when the render   *)
(* thread has dropped the receiver, which it does when it ends.            *)
(***************************************************************************)
Key(key, action) == [tag |-> "Key", key |-> key, action |-> action]
Size(width, height) == [tag |-> "Size", width |-> width, height |-> height]
FramebufferSize(width, height) ==
    [tag |-> "FramebufferSize", width |-> width, height |-> height]
Iconify(iconified) == [tag |-> "Iconify", iconified |-> iconified]
Focus(focus) == [tag |-> "Focus", focus |-> focus]
Close == [tag |-> "Close"]

WindowEvents ==
    {Key("Escape", "Press"), Key("Escape", "Release"), Key("F11", "Press"),
     Size(800, 600), Size(0, 600), FramebufferSize(800, 600), FramebufferSize(800, 0),
     Iconify(TRUE), Iconify(FALSE), Focus(TRUE), Focus(FALSE), Close}

\* RenderSignal
ViewportResize(width, height) ==
    [tag |-> "ViewportResize", width |-> width, height |-> height]
Pause == [tag |-> "Pause"]
Resume == [tag |-> "Resume"]
Event(event) == [tag |-> "Event", event |-> event]
Stop == [tag |-> "Stop"]

\* the calls main makes
Send(signal, ok) == [op |-> "send", signal |-> signal, ok |-> ok]
Unpark == [op |-> "unpark"]
SetShouldClose == [op |-> "set_should_close"]
ToggleFullscreen == [op |-> "toggle"]
JoinRender == [op |-> "join"]

\* faulty variant: the guard of the Iconify arm dropped
match_event_iconify_unguarded(event) ==
    IF event.tag = "Key" /\ event.key = "Escape" /\ event.action = "Press" THEN "close"
    ELSE IF event.tag = "Key" /\ event.key = "F11" /\ event.action = "Press" THEN "fullscreen"
    ELSE IF event.tag \in {"FramebufferSize", "Size"} /\ event.width > 0 /\ event.height > 0
    THEN "resize"
    ELSE IF event.tag = "Iconify" THEN "pause"
    ELSE IF event.tag = "Focus" THEN (IF event.focus THEN "resume" ELSE "pause")
    ELSE "forward"

\* match event { .. }: the first arm whose pattern and guard hold
match_event(event) ==
    IF event.tag = "Key" /\ event.key = "Escape" /\ event.action = "Press" THEN "close"
    ELSE IF event.tag = "Key" /\ event.key = "F11" /\ event.action = "Press" THEN "fullscreen"
    ELSE IF event.tag \in {"FramebufferSize", "Size"} /\ event.width > 0 /\ event.height > 0
    THEN "resize"
    ELSE IF event.tag = "Iconify" /\ event.iconified THEN "pause"
    ELSE IF event.tag = "Focus" THEN (IF event.focus THEN "resume" ELSE "pause")
    ELSE "forward"

\* tx.send(signal): delivered while the receiver lives
send(signal) == IF render = "running" THEN Append(channel, signal) ELSE channel

\* send_and_unpark!(signal): the send, then the unpark, then the result of the send
send_and_unpark(signal) == <<Send(signal, render = "running"), Unpark>>

\* faulty variant: the Stop signal sent without waking the render thread
stop_calls_without_unpark == <<Send(Stop, render = "running")>>

\* send_and_unpark!(RenderSignal::Stop)
stop_calls == send_and_unpark(Stop)

\* while !window.should_close()
LoopHead ==
    /\ pc = "loop"
    /\ pc' = IF should_close THEN "stop" ELSE "wait"
    /\ UNCHANGED <<should_close, fullscreen, arrived, handled, effects, channel, render>>

\* glfw.wait_events(): blocks until events arrive and queues them; a request to
\* close the window raises the window's close flag
WaitEvents ==
    /\ pc = "wait"
    /\ \E batch \in SeqsUpTo(WindowEvents, MaxEvents - Len(arrived)) :
          /\ batch # <<>>
          /\ arrived' = arrived \o batch
          /\ should_close' = (should_close \/ \E i \in 1..Len(batch) : batch[i] = Close)
    /\ pc' = "flush"
    /\ UNCHANGED <<fullscreen, handled, effects, channel, render>>

\* one turn of `for (_, event) in glfw::flush_messages(&events)`
HandleEvent ==
    /\ pc = "flush"
    /\ handled < Len(arrived)
    /\ LET event == arrived[handled + 1]
           arm == match_event(event)
           signal == CASE arm = "resize" -> ViewportResize(event.width, event.height)
                       [] arm = "pause" -> Pause
                       [] arm = "resume" -> Resume
                       [] arm = "forward" -> Event(event)
                       [] OTHER -> Stop
           sends == arm \in {"resize", "pause", "resume", "forward"}
       IN  /\ handled' = handled + 1
           /\ should_close' = (should_close \/ arm = "close")
           /\ fullscreen' = IF arm = "fullscreen" THEN ~fullscreen ELSE fullscreen
           /\ effects' = effects \o
                 CASE arm = "close" -> <<SetShouldClose>>
                   [] arm = "fullscreen" -> <<ToggleFullscreen>>
                   [] arm = "forward" -> <<Send(signal, render = "running")>>
                   [] OTHER -> send_and_unpark(signal)
           /\ channel' = IF sends THEN send(signal) ELSE channel
           /\ pc' = IF sends /\ render # "running" THEN "panicked"
                    ELSE IF handled' = Len(arrived) THEN "loop"
                    ELSE "flush"
    /\ UNCHANGED <<arrived, render>>

\* send_and_unpark!(RenderSignal::Stop).expect(..)
SendStop ==
    /\ pc = "stop"
    /\ effects' = effects \o stop_calls
    /\ channel' = send(Stop)
    /\ pc' = IF render = "running" THEN "join" ELSE "panicked"
    /\ UNCHANGED <<should_close, fullscreen, arrived, handled, render>>

\* render_thread.join().expect(..): returns once the render thread has ended
Join ==
    /\ pc = "join"
    /\ render # "running"
    /\ effects' = Append(effects, JoinRender)
    /\ pc' = IF render = "stopped" THEN "returned" ELSE "panicked"
    /\ UNCHANGED <<should_close, fullscreen, arrived, handled, channel, render>>

\* the render thread: start(..).expect("Render thread crashed") panics
RenderCrash ==
    /\ render = "running"
    /\ pc \notin {"returned", "panicked"}
    /\ render' = "crashed"
    /\ UNCHANGED <<pc, should_close, fullscreen, arrived, handled, effects, channel>>

\* the render thread: it takes the Stop signal and ends
RenderStop ==
    /\ render = "running"
    /\ \E i \in 1..Len(channel) : channel[i] = Stop
    /\ render' = "stopped"
    /\ UNCHANGED <<pc, should_close, fullscreen, arrived, handled, effects, channel>>

NextMain ==
    \/ LoopHead /\ UNCHANGED <<meshVars, numVars, viewerVars>>
    \/ WaitEvents /\ UNCHANGED <<meshVars, numVars, viewerVars>>
    \/ HandleEvent /\ UNCHANGED <<meshVars, numVars, viewerVars>>
    \/ SendStop /\ UNCHANGED <<meshVars, numVars, viewerVars>>
    \/ Join /\ UNCHANGED <<meshVars, numVars, viewerVars>>
    \/ RenderCrash /\ UNCHANGED <<meshVars, numVars, viewerVars>>
    \/ RenderStop /\ UNCHANGED <<meshVars, numVars, viewerVars>>

SpecMain == Init /\ [][NextMain]_vars

(***************************************************************************)
(* The texture viewer's render loop (start).  rx is the queue of signals   *)
(* not yet received, trace the list of what the loop has done: the start   *)
(* of each pass, each signal received, each viewport set, each buffer swap.*)
(***************************************************************************)
Refresh == [tag |-> "Refresh"]
Resize(width, height) == [tag |-> "Resize", width |-> width, height |-> height]
ChangeTexture(path) == [tag |-> "ChangeTexture", path |-> path]

ViewerSignals ==
    {Stop, Refresh, Resize(640, 480), Resize(800, 600), Resize(0 - 1, 480),
     ChangeTexture("a.png")}

Received(signal) == [op |-> "recv", signal |-> signal]
Viewport(size) == [op |-> "viewport", size |-> size]
SwapBuffers == [op |-> "swap"]

Count(op) == Cardinality({i \in 1..Len(trace) : trace[i].op = op})

\* the size of the image behind a path
ImageSize(path) == <<as_u32(64), as_u32(32)>>

\* another thread sends a signal
SendSignal ==
    /\ Count("recv") + Len(rx) < MaxSignals
    /\ vpc \notin {"returned", "panicked"}
    /\ \E signal \in ViewerSignals : rx' = Append(rx, signal)
    /\ UNCHANGED <<vpc, trace, viewport_size, viewport, resolution, texture_resolution,
                   startResult>>

\* faulty variant: Stop only noted, the rest of the batch is still drained
ReceiveStop_deferred ==
    /\ vpc' = "drain"
    /\ UNCHANGED <<viewport_size, viewport, resolution, texture_resolution, startResult>>

\* RenderSignal::Stop => break 'render, then Ok(())
ReceiveStop ==
    /\ vpc' = "returned"
    /\ startResult' = Ok(Unit)
    /\ UNCHANGED <<viewport_size, viewport, resolution, texture_resolution>>

\* RenderSignal::ChangeTexture(path): the texture is loaded and its size kept;
\* a try! may return an error before or after the size is kept, an unwrap may panic
ReceiveChangeTexture(path) ==
    /\ \E outcome \in {"ok", "err_early", "err_late", "panic"} :
          /\ vpc' = CASE outcome = "ok" -> "drain"
                      [] outcome = "panic" -> "panicked"
                      [] OTHER -> "returned"
          /\ startResult' = IF outcome \in {"err_early", "err_late"} THEN Err("gl")
                            ELSE startResult
          /\ texture_resolution' = IF outcome \in {"ok", "err_late"} THEN ImageSize(path)
                                   ELSE texture_resolution
    /\ UNCHANGED <<viewport_size, viewport, resolution>>

\* one turn of `for event in rx.try_iter()` that finds a signal
Dequeue ==
    /\ vpc = "drain"
    /\ rx # <<>>
    /\ rx' = Tail(rx)
    /\ trace' = Append(trace, Received(Head(rx)))
    /\ LET event == Head(rx)
       IN  CASE event.tag = "Stop" -> ReceiveStop
             [] event.tag = "Refresh" ->
                   UNCHANGED <<vpc, viewport_size, viewport, resolution, texture_resolution,
                               startResult>>
             [] event.tag = "Resize" ->
                   /\ viewport_size' = Some(<<event.width, event.height>>)
                   /\ UNCHANGED <<vpc, viewport, resolution, texture_resolution, startResult>>
             [] event.tag = "ChangeTexture" -> ReceiveChangeTexture(event.path)

\* rx.try_iter() finds the channel empty: the for loop ends
DrainEnd ==
    /\ vpc = "drain"
    /\ rx = <<>>
    /\ vpc' = "apply"
    /\ UNCHANGED <<rx, trace, viewport_size, viewport, resolution, texture_resolution,
                   startResult>>

\* if let Some((width, height)) = viewport_size { glb::Viewport(..); resolution = ..;
\* check_errors!() }
ApplyViewport ==
    /\ vpc = "apply"
    /\ IF viewport_size.tag = "Some"
       THEN /\ viewport' = viewport_size
            /\ resolution' = <<as_u32(viewport_size.val[1]), as_u32(viewport_size.val[2])>>
            /\ trace' = Append(trace, Viewport(viewport_size.val))
            /\ \E gl_error \in BOOLEAN :
                  /\ vpc' = IF gl_error THEN "returned" ELSE "draw"
                  /\ startResult' = IF gl_error THEN Err("gl") ELSE startResult
       ELSE /\ vpc' = "draw"
            /\ UNCHANGED <<viewport, resolution, trace, startResult>>
    /\ UNCHANGED <<rx, viewport_size, texture_resolution>>

\* use_program, draw, the two uniforms (each under try!), then swap_buffers and park
Draw ==
    /\ vpc = "draw"
    /\ \E gl_error \in BOOLEAN :
          IF gl_error
          THEN /\ vpc' = "returned"
               /\ startResult' = Err("gl")
               /\ UNCHANGED trace
          ELSE /\ vpc' = "parked"
               /\ trace' = Append(trace, SwapBuffers)
               /\ UNCHANGED startResult
    /\ UNCHANGED <<rx, viewport_size, viewport, resolution, texture_resolution>>

\* ::std::thread::park() returns, after an unpark or on its own; the next pass starts
Unparked ==
    /\ vpc = "parked"
    /\ Count("swap") < MaxFrames
    /\ vpc' = "drain"
    /\ viewport_size' = None
    /\ trace' = Append(trace, Begin)
    /\ UNCHANGED <<rx, viewport, resolution, texture_resolution, startResult>>

NextViewer ==
    \/ SendSignal /\ UNCHANGED <<meshVars, numVars, mainVars>>
    \/ Dequeue /\ UNCHANGED <<meshVars, numVars, mainVars>>
    \/ DrainEnd /\ UNCHANGED <<meshVars, numVars, mainVars>>
    \/ ApplyViewport /\ UNCHANGED <<meshVars, numVars, mainVars>>
    \/ Draw /\ UNCHANGED <<meshVars, numVars, mainVars>>
    \/ Unparked /\ UNCHANGED <<meshVars, numVars, mainVars>>

SpecViewer == Init /\ [][NextViewer]_vars

(***************************************************************************)
(* Shorthands for the claims.                                              *)
(***************************************************************************)
SavedOk == origin.tag = "saved" /\ saveResult = Ok(Unit)
Loaded == loadResult # NoResult

\* the reader gets as far as the match on the vertices union
IndicesReadable(msg) ==
    /\ msg.indices.tag = "Ok"
    /\ \/ msg.indices.val.tag = "None"
       \/ msg.indices.val.tag = "Some" /\ msg.indices.val.val.tag = "Ok"

ReachesVertices(msg) == IndicesReadable(msg) /\ msg.materials.tag = "Ok"

\* an optional field whose tag and payload read without a codec error
OptionReadable(field) ==
    /\ field.tag = "Ok"
    /\ \/ field.val.tag = "None"
       \/ field.val.tag = "Some" /\ field.val.val.tag = "Ok"

OptionPresent(field) ==
    field.tag = "Ok" /\ field.val.tag = "Some" /\ field.val.val.tag = "Ok"

(***************************************************************************)
(* C1: a mesh that was saved (either raw flag, either layout, indices      *)
(* absent, empty or not, any number of materials and vertices) loads back  *)
(* without error as a mesh equal to the one saved, field for field.        *)
(***************************************************************************)
C1_RoundTrip ==
    (SavedOk /\ Loaded) => loadResult = Ok(origin.mesh)

C1_Witness ==
    /\ SavedOk
    /\ origin.raw
    /\ origin.mesh.vertices.tag = "Discrete"
    /\ Len(origin.mesh.vertices.positions) = 0
    /\ origin.mesh.indices = Some(<<7, 0>>)
    /\ Len(origin.mesh.materials) = 2
    /\ loadResult = Ok(origin.mesh)

(***************************************************************************)
(* C2: once the reader reaches an InterleavedRaw blob, a blob whose length *)
(* is not a multiple of 32 fails with InvalidLength, and a blob of k * 32  *)
(* bytes decodes to Interleaved with exactly k vertices.                   *)
(***************************************************************************)
C2_InterleavedRawLength ==
    (/\ Loaded
     /\ ReachesVertices(wire)
     /\ wire.vertices.tag = "InterleavedRaw"
     /\ wire.vertices.val.tag = "Ok")
    => LET n == Len(wire.vertices.val.val)
       IN  IF n % 32 # 0
           THEN loadResult = Err(InvalidLength)
           ELSE /\ loadResult.tag = "Ok"
                /\ loadResult.val.vertices.tag = "Interleaved"
                /\ Len(loadResult.val.vertices.vertices) * 32 = n

C2_Witness ==
    /\ origin.tag = "external"
    /\ ReachesVertices(wire)
    /\ wire.vertices.tag = "InterleavedRaw"
    /\ wire.vertices.val.tag = "Ok"
    /\ Len(wire.vertices.val.val) = 49
    /\ loadResult = Err(InvalidLength)

(***************************************************************************)
(* C3: the DiscreteRaw arm.                                                *)
(***************************************************************************)
InDiscreteRaw ==
    /\ Loaded
    /\ ReachesVertices(wire)
    /\ wire.vertices.tag = "DiscreteRaw"
    /\ wire.vertices.val.tag = "Ok"

BadLength(blob, size) == Len(blob) % size # 0

\* some blob the message holds has a length that is no multiple of its element size
SomeBlobBad(v) ==
    \/ v.positions.tag = "Ok" /\ BadLength(v.positions.val, 12)
    \/ OptionPresent(v.normals) /\ BadLength(v.normals.val.val.val, 12)
    \/ OptionPresent(v.uvs) /\ BadLength(v.uvs.val.val.val, 8)

\* every read of the arm succeeds: the three fields, the two tags, the two payloads
ArmReadable(v) ==
    v.positions.tag = "Ok" /\ OptionReadable(v.normals) /\ OptionReadable(v.uvs)

\* the decoded optional attribute mirrors the wire's: None for None, length / size elements
AttributeDecoded(field, decoded, size) ==
    IF field.val.tag = "None" THEN decoded = None
    ELSE decoded.tag = "Some" /\ Len(decoded.val) * size = Len(field.val.val.val)

\* C3 as claimed: in the DiscreteRaw arm the decode fails with InvalidLength if and
\* only if the positions blob or a present normals or uvs blob has a bad length.
C3_Original ==
    InDiscreteRaw =>
        (loadResult = Err(InvalidLength) <=> SomeBlobBad(wire.vertices.val.val))

\* C3 as amended: the equivalence holds for a DiscreteRaw message whose reads raise
\* no codec error (a codec error met before a length check is what is returned);
\* InvalidLength always means that some blob has a bad length; absent normals or
\* uvs are not length-checked and decode to None; a success is Discrete with
\* length / size elements per present blob.
C3_DiscreteRawLength ==
    InDiscreteRaw =>
        LET v == wire.vertices.val.val
        IN  /\ loadResult = Err(InvalidLength) => SomeBlobBad(v)
            /\ ArmReadable(v) =>
                  /\ loadResult = Err(InvalidLength) <=> SomeBlobBad(v)
                  /\ ~SomeBlobBad(v) =>
                        /\ loadResult.tag = "Ok"
                        /\ loadResult.val.vertices.tag = "Discrete"
                        /\ Len(loadResult.val.vertices.positions) * 12 = Len(v.positions.val)
                        /\ AttributeDecoded(v.normals, loadResult.val.vertices.normals, 12)
                        /\ AttributeDecoded(v.uvs, loadResult.val.vertices.uvs, 8)

C3_Witness ==
    /\ InDiscreteRaw
    /\ ArmReadable(wire.vertices.val.val)
    /\ Len(wire.vertices.val.val.positions.val) = 24
    /\ wire.vertices.val.val.normals.val = None
    /\ OptionPresent(wire.vertices.val.val.uvs)
    /\ Len(wire.vertices.val.val.uvs.val.val.val) = 25
    /\ loadResult = Err(InvalidLength)

(***************************************************************************)
(* C4: a Discrete mesh keeps the None / Some state of normals and of uvs   *)
(* through save and load, each on its own and for both raw flags; None     *)
(* stays None and Some of an empty sequence stays Some of an empty one.    *)
(***************************************************************************)
SameOptionality(before, after) ==
    /\ after.tag = before.tag
    /\ before.tag = "Some" => Len(after.val) = Len(before.val)

C4_Optionality ==
    (SavedOk /\ Loaded /\ origin.mesh.vertices.tag = "Discrete") =>
        /\ loadResult.tag = "Ok"
        /\ loadResult.val.vertices.tag = "Discrete"
        /\ SameOptionality(origin.mesh.vertices.normals, loadResult.val.vertices.normals)
        /\ SameOptionality(origin.mesh.vertices.uvs, loadResult.val.vertices.uvs)

C4_Witness ==
    /\ SavedOk
    /\ Loaded
    /\ origin.raw
    /\ origin.mesh.vertices.tag = "Discrete"
    /\ origin.mesh.vertices.normals = None
    /\ origin.mesh.vertices.uvs = Some(<<>>)
    /\ loadResult.val.vertices.normals = None
    /\ loadResult.val.vertices.uvs = Some(<<>>)

(***************************************************************************)
(* C5: an interleaved vertex sequence saved in one mode and loaded gives   *)
(* the same Interleaved value as the same sequence saved in the other mode *)
(* and loaded: same length, same order, same components.                   *)
(***************************************************************************)
OtherMode(m, raw) ==
    load_mesh_from_reader(save_mesh_to_builder([set_some_fails |-> {}], m, ~raw).builder)

C5_CrossMode ==
    (SavedOk /\ Loaded /\ origin.mesh.vertices.tag = "Interleaved") =>
        /\ loadResult.tag = "Ok"
        /\ OtherMode(origin.mesh, origin.raw).tag = "Ok"
        /\ loadResult.val.vertices = OtherMode(origin.mesh, origin.raw).val.vertices
        /\ loadResult.val.vertices.tag = "Interleaved"

C5_Witness ==
    /\ SavedOk
    /\ origin.raw
    /\ origin.mesh.vertices.tag = "Interleaved"
    /\ Len(origin.mesh.vertices.vertices) = 2
    /\ origin.mesh.vertices.vertices[1] # origin.mesh.vertices.vertices[2]
    /\ Loaded
    /\ loadResult.val.vertices = OtherMode(origin.mesh, origin.raw).val.vertices

(***************************************************************************)
(* C6: the variant written is fixed by the layout of mesh.vertices and the *)
(* raw flag: Discrete / Interleaved without raw, DiscreteRaw /             *)
(* InterleavedRaw with raw.                                                *)
(***************************************************************************)
C6_Dispatch ==
    SavedOk =>
        wire.vertices.tag =
            CASE origin.mesh.vertices.tag = "Discrete" /\ ~origin.raw -> "Discrete"
              [] origin.mesh.vertices.tag = "Interleaved" /\ ~origin.raw -> "Interleaved"
              [] origin.mesh.vertices.tag = "Discrete" /\ origin.raw -> "DiscreteRaw"
              [] origin.mesh.vertices.tag = "Interleaved" /\ origin.raw -> "InterleavedRaw"

C6_Witness ==
    /\ SavedOk
    /\ origin.raw
    /\ origin.mesh.vertices.tag = "Interleaved"
    /\ wire.vertices.tag = "InterleavedRaw"

(***************************************************************************)
(* C7: load returns a whole Mesh or an error, never both and never a part. *)
(* What can fail is stated here from the message alone: a field the        *)
(* decoder reads that is malformed, or a raw blob of the wrong length.     *)
(***************************************************************************)
OptionFaulty(field) == ~OptionReadable(field)

VerticesFaulty(u) ==
    CASE u.tag = "NotInSchema" -> TRUE
      [] u.tag = "Interleaved" ->
            \/ u.val.tag = "Err"
            \/ \E i \in 1..Len(u.val.val) :
                  \E f \in {"position", "normal", "uv"} : u.val.val[i][f].tag = "Err"
      [] u.tag = "Discrete" ->
            \/ u.val.tag = "Err"
            \/ u.val.val.positions.tag = "Err"
            \/ OptionFaulty(u.val.val.normals)
            \/ OptionFaulty(u.val.val.uvs)
      [] u.tag = "InterleavedRaw" ->
            \/ u.val.tag = "Err"
            \/ BadLength(u.val.val, 32)
      [] u.tag = "DiscreteRaw" ->
            \/ u.val.tag = "Err"
            \/ u.val.val.positions.tag = "Err"
            \/ OptionFaulty(u.val.val.normals)
            \/ OptionFaulty(u.val.val.uvs)
            \/ SomeBlobBad(u.val.val)

Faulty(msg) == ~IndicesReadable(msg) \/ msg.materials.tag = "Err" \/ VerticesFaulty(msg.vertices)

WholeMesh(m) ==
    /\ DOMAIN m = {"vertices", "indices", "materials"}
    /\ m.vertices.tag \in {"Interleaved", "Discrete"}
    /\ m.indices.tag \in {"None", "Some"}

C7_AllOrNothing ==
    Loaded =>
        IF Faulty(wire)
        THEN /\ loadResult.tag = "Err"
             /\ DOMAIN loadResult = {"tag", "err"}
             /\ loadResult.err.kind \in {"Codec", "InvalidLength"}
        ELSE /\ loadResult.tag = "Ok"
             /\ DOMAIN loadResult = {"tag", "val"}
             /\ WholeMesh(loadResult.val)

\* indices and materials were collected, then the vertices failed
C7_Witness ==
    /\ Loaded
    /\ wire.indices = Ok(Some(Ok(<<0, 7>>)))
    /\ wire.materials = Ok(<<1, 2>>)
    /\ VerticesFaulty(wire.vertices)
    /\ wire.vertices.tag = "Interleaved"
    /\ loadResult.tag = "Err"

OptionBlobLength(field, attribute, size) ==
    IF attribute.tag = "Some"
    THEN OptionPresent(field) /\ Len(field.val.val.val) = Len(attribute.val) * size
    ELSE field = Ok(None)

C10_RawLengths ==
    (SavedOk /\ origin.raw) =>
        /\ origin.mesh.vertices.tag = "Interleaved" =>
              /\ wire.vertices.tag = "InterleavedRaw"
              /\ Len(wire.vertices.val.val) = Len(origin.mesh.vertices.vertices) * 32
        /\ origin.mesh.vertices.tag = "Discrete" =>
              /\ wire.vertices.tag = "DiscreteRaw"
              /\ Len(wire.vertices.val.val.positions.val)
                    = Len(origin.mesh.vertices.positions) * 12
              /\ OptionBlobLength(wire.vertices.val.val.normals, origin.mesh.vertices.normals, 12)
              /\ OptionBlobLength(wire.vertices.val.val.uvs, origin.mesh.vertices.uvs, 8)
        /\ loadResult # Err(InvalidLength)

C10_Witness ==
    /\ SavedOk
    /\ origin.raw
    /\ origin.mesh.vertices.tag = "Discrete"
    /\ Len(origin.mesh.vertices.positions) = 2
    /\ origin.mesh.vertices.uvs.tag = "Some"
    /\ Len(wire.vertices.val.val.positions.val) = 24
    /\ Len(wire.vertices.val.val.uvs.val.val.val) = 8
    /\ loadResult.tag = "Ok"

(***************************************************************************)
(* C11: a Discrete or DiscreteRaw message that reads without error loads   *)
(* successfully whatever the element counts of its positions, normals and  *)
(* uvs are: each decoded sequence has the element count of its own wire    *)
(* list or blob, also when the counts differ from one another.             *)
(***************************************************************************)
\* the number of elements a list (size 0) or a blob of size-byte records holds
ElementCount(payload, size) == IF size = 0 THEN Len(payload) ELSE Len(payload) \div size

OwnLength(field, decoded, size) ==
    IF field.val.tag = "None" THEN decoded = None
    ELSE decoded.tag = "Some" /\ Len(decoded.val) = ElementCount(field.val.val.val, size)

\* a present normals or uvs list with another element count than the positions
CountsDiffer(v, raw) ==
    LET n == ElementCount(v.positions.val, IF raw THEN 12 ELSE 0)
    IN  \/ OptionPresent(v.normals)
           /\ ElementCount(v.normals.val.val.val, IF raw THEN 12 ELSE 0) # n
        \/ OptionPresent(v.uvs)
           /\ ElementCount(v.uvs.val.val.val, IF raw THEN 8 ELSE 0) # n

C11_NoLengthCrossCheck ==
    (/\ Loaded
     /\ ReachesVertices(wire)
     /\ wire.vertices.tag \in {"Discrete", "DiscreteRaw"}
     /\ ~VerticesFaulty(wire.vertices))
    => LET v == wire.vertices.val.val
           raw == wire.vertices.tag = "DiscreteRaw"
       IN  /\ loadResult.tag = "Ok"
           /\ loadResult.val.vertices.tag = "Discrete"
           /\ Len(loadResult.val.vertices.positions)
                 = ElementCount(v.positions.val, IF raw THEN 12 ELSE 0)
           /\ OwnLength(v.normals, loadResult.val.vertices.normals, IF raw THEN 12 ELSE 0)
           /\ OwnLength(v.uvs, loadResult.val.vertices.uvs, IF raw THEN 8 ELSE 0)

\* two positions, one normal and no uv at all, present: loaded as they are
C11_Witness ==
    /\ Loaded
    /\ ReachesVertices(wire)
    /\ wire.vertices.tag = "Discrete"
    /\ ~VerticesFaulty(wire.vertices)
    /\ CountsDiffer(wire.vertices.val.val, FALSE)
    /\ Len(wire.vertices.val.val.positions.val) = 2
    /\ loadResult.tag = "Ok"
    /\ Len(loadResult.val.vertices.positions) = 2
    /\ loadResult.val.vertices.normals.tag = "Some"
    /\ Len(loadResult.val.vertices.normals.val) = 1
    /\ loadResult.val.vertices.uvs = Some(<<>>)

(***************************************************************************)
(* C12: for num >= 0 and multiple >= 1 whose sum does not overflow,        *)
(* round_multiple returns the smallest multiple of `multiple` that is no   *)
(* less than num; a num that is a multiple already is returned unchanged,  *)
(* and round_multiple(43, 5) = 45.                                         *)
(***************************************************************************)
RoundMultipleReturned ==
    /\ numCall.fn = "round_multiple"
    /\ numRet # NoResult
    /\ numCall.multiple >= 1
    /\ numCall.num + numCall.multiple <= TMax

C12_RoundMultiple ==
    RoundMultipleReturned =>
        /\ numRet.tag = "Returned"
        /\ numRet.val % numCall.multiple = 0
        /\ numRet.val >= numCall.num
        /\ \A r \in numCall.num..TMax : r % numCall.multiple = 0 => numRet.val <= r
        /\ numCall.num % numCall.multiple = 0 => numRet.val = numCall.num
        /\ (numCall.num = 43 /\ numCall.multiple = 5) => numRet.val = 45

C12_Witness ==
    /\ RoundMultipleReturned
    /\ numCall.num = 43
    /\ numCall.multiple = 5
    /\ numRet = Returned(45)

(***************************************************************************)
(* C13: for min <= max, clamp returns a value within [min, max]: self when *)
(* min <= self <= max, min when self < min, max when self > max; and       *)
(* 15.clamp(0, 5) = 5.                                                     *)
(***************************************************************************)
ClampReturned ==
    /\ numCall.fn = "clamp"
    /\ numRet # NoResult
    /\ numCall.min <= numCall.max

C13_Clamp ==
    ClampReturned =>
        /\ numRet.tag = "Returned"
        /\ numCall.min <= numRet.val
        /\ numRet.val <= numCall.max
        /\ (numCall.min <= numCall.self /\ numCall.self <= numCall.max)
              => numRet.val = numCall.self
        /\ numCall.self < numCall.min => numRet.val = numCall.min
        /\ numCall.self > numCall.max => numRet.val = numCall.max

C13_Witness ==
    /\ ClampReturned
    /\ numCall.self = 15
    /\ numCall.min = 0
    /\ numCall.max = 5
    /\ numRet = Returned(5)

(***************************************************************************)
(* C14: for every mesh and either raw flag one of the four guarded arms of *)
(* the vertex dispatch matches; a save never ends in the unreachable arm.  *)
(***************************************************************************)
C14_DispatchTotal ==
    origin.tag = "saved" =>
        /\ save_arm(origin.mesh.vertices, origin.raw)
              \in {"Discrete", "Interleaved", "DiscreteRaw", "InterleavedRaw"}
        /\ saveResult # Panic
        /\ saveResult.tag \in {"Ok", "Err"}

C14_Witness ==
    /\ origin.tag = "saved"
    /\ origin.raw
    /\ origin.mesh.vertices.tag = "Interleaved"
    /\ Len(origin.mesh.vertices.vertices) = 0
    /\ save_arm(origin.mesh.vertices, origin.raw) = "InterleavedRaw"
    /\ saveResult = Ok(Unit)

(***************************************************************************)
(* C15: the tag of an optional field (indices, normals, uvs) that the      *)
(* schema does not know is returned as the codec error of that read when   *)
(* the decoder gets to it, and no load of a message with such a tag        *)
(* succeeds; a loaded mesh has None for such a field exactly when the wire *)
(* tag is None.                                                            *)
(***************************************************************************)
BadTag(field) == field.tag = "Ok" /\ field.val.tag = "NotInSchema"

\* the decoder gets to read the tags of normals and of uvs in the arm of msg
ReachesNormalsTag(msg) ==
    /\ ReachesVertices(msg)
    /\ msg.vertices.tag \in {"Discrete", "DiscreteRaw"}
    /\ msg.vertices.val.tag = "Ok"
    /\ msg.vertices.val.val.positions.tag = "Ok"
    /\ msg.vertices.val.val.normals.tag = "Ok"
    /\ msg.vertices.val.val.uvs.tag = "Ok"
    /\ msg.vertices.tag = "DiscreteRaw" => ~BadLength(msg.vertices.val.val.positions.val, 12)

ReachesUvsTag(msg) ==
    /\ ReachesNormalsTag(msg)
    /\ OptionReadable(msg.vertices.val.val.normals)
    /\ (msg.vertices.tag = "DiscreteRaw" /\ OptionPresent(msg.vertices.val.val.normals))
          => ~BadLength(msg.vertices.val.val.normals.val.val.val, 12)

\* a decoded optional value is None exactly when the wire tag is None
NoneOnlyForNone(field, decoded) ==
    /\ field.val.tag \in {"None", "Some"}
    /\ decoded = None <=> field.val.tag = "None"

C15_TagErrorsPropagate ==
    Loaded =>
        /\ BadTag(wire.indices) => loadResult = Err(CodecError(wire.indices.val.err))
        /\ (ReachesNormalsTag(wire) /\ BadTag(wire.vertices.val.val.normals))
              => loadResult = Err(CodecError(wire.vertices.val.val.normals.val.err))
        /\ (ReachesUvsTag(wire) /\ BadTag(wire.vertices.val.val.uvs))
              => loadResult = Err(CodecError(wire.vertices.val.val.uvs.val.err))
        /\ loadResult.tag = "Ok" =>
              /\ NoneOnlyForNone(wire.indices, loadResult.val.indices)
              /\ wire.vertices.tag \in {"Discrete", "DiscreteRaw"} =>
                    /\ NoneOnlyForNone(wire.vertices.val.val.normals,
                                       loadResult.val.vertices.normals)
                    /\ NoneOnlyForNone(wire.vertices.val.val.uvs, loadResult.val.vertices.uvs)

\* the uvs of a DiscreteRaw message carry an unknown tag behind readable normals
C15_Witness ==
    /\ Loaded
    /\ wire.vertices.tag = "DiscreteRaw"
    /\ ReachesUvsTag(wire)
    /\ OptionPresent(wire.vertices.val.val.normals)
    /\ BadTag(wire.vertices.val.val.uvs)
    /\ loadResult = Err(CodecError("uvs.which"))

(***************************************************************************)
(* C16: the steps of a load in the order the decoder takes them, each with *)
(* whether it fails on the message and the error it then raises.  The load *)
(* returns the error of the first step that fails, and a mesh if none does.*)
(***************************************************************************)
Step(fails, error) == [fails |-> fails, error |-> error]

NoError == [kind |-> "none", cause |-> "none"]

\* a read wrapped in try_throw!
ReadStep(result) ==
    Step(result.tag = "Err", IF result.tag = "Err" THEN CodecError(result.err) ELSE NoError)

\* which() of an optional field
TagStep(field) ==
    Step(BadTag(field), IF BadTag(field) THEN CodecError(field.val.err) ELSE NoError)

\* the payload of Some
PayloadStep(field) ==
    LET bad == field.tag = "Ok" /\ field.val.tag = "Some" /\ field.val.val.tag = "Err"
    IN  Step(bad, IF bad THEN CodecError(field.val.val.err) ELSE NoError)

\* the length check of a present blob
LengthStep(field, size) ==
    Step(OptionPresent(field) /\ BadLength(field.val.val.val, size), InvalidLength)

RECURSIVE VertexSteps(_, _)
VertexSteps(list, i) ==
    IF i > Len(list) THEN <<>>
    ELSE <<ReadStep(list[i].position), ReadStep(list[i].normal), ReadStep(list[i].uv)>>
         \o VertexSteps(list, i + 1)

ArmSteps(u) ==
    CASE u.tag = "NotInSchema" -> <<>>
      [] u.tag # "NotInSchema" /\ u.val.tag = "Err" -> <<ReadStep(u.val)>>
      [] u.tag = "Interleaved" /\ u.val.tag = "Ok" -> VertexSteps(u.val.val, 1)
      [] u.tag = "Discrete" /\ u.val.tag = "Ok" ->
            <<ReadStep(u.val.val.positions), ReadStep(u.val.val.normals), ReadStep(u.val.val.uvs),
              TagStep(u.val.val.normals), PayloadStep(u.val.val.normals),
              TagStep(u.val.val.uvs), PayloadStep(u.val.val.uvs)>>
      [] u.tag = "InterleavedRaw" /\ u.val.tag = "Ok" ->
            <<Step(BadLength(u.val.val, 32), InvalidLength)>>
      [] u.tag = "DiscreteRaw" /\ u.val.tag = "Ok" ->
            <<ReadStep(u.val.val.positions), ReadStep(u.val.val.normals), ReadStep(u.val.val.uvs),
              Step(u.val.val.positions.tag = "Ok" /\ BadLength(u.val.val.positions.val, 12),
                   InvalidLength),
              TagStep(u.val.val.normals), PayloadStep(u.val.val.normals),
              LengthStep(u.val.val.normals, 12),
              TagStep(u.val.val.uvs), PayloadStep(u.val.val.uvs),
              LengthStep(u.val.val.uvs, 8)>>

LoadSteps(msg) ==
    <<ReadStep(msg.indices), TagStep(msg.indices), PayloadStep(msg.indices),
      ReadStep(msg.materials),
      Step(msg.vertices.tag = "NotInSchema",
           IF msg.vertices.tag = "NotInSchema" THEN CodecError(msg.vertices.err) ELSE NoError)>>
    \o ArmSteps(msg.vertices)

FailingSteps(steps) == {i \in 1..Len(steps) : steps[i].fails}

FirstFailure(steps) == CHOOSE i \in FailingSteps(steps) : \A j \in FailingSteps(steps) : i <= j

C16_FailFastOrder ==
    Loaded =>
        LET steps == LoadSteps(wire)
        IN  IF FailingSteps(steps) = {}
            THEN loadResult.tag = "Ok"
            ELSE loadResult = Err(steps[FirstFailure(steps)].error)

\* malformed indices and a raw blob of 17 bytes: the codec error of the indices
C16_Witness ==
    /\ Loaded
    /\ wire.indices = Err("indices")
    /\ wire.materials.tag = "Ok"
    /\ wire.vertices.tag = "InterleavedRaw"
    /\ wire.vertices.val.tag = "Ok"
    /\ Len(wire.vertices.val.val) = 17
    /\ Cardinality(FailingSteps(LoadSteps(wire))) = 2
    /\ loadResult = Err(CodecError("indices"))

(***************************************************************************)
(* C17: main sends Stop at most once, only after it left the event loop    *)
(* with the window's close flag raised and every queued event handled; no  *)
(* signal is sent after it, the unpark follows the send, the join follows  *)
(* the unpark, and a main that has returned has done all three.            *)
(***************************************************************************)
StopSends == {i \in 1..Len(effects) : effects[i].op = "send" /\ effects[i].signal = Stop}

C17_StopOnceLast ==
    /\ Cardinality(StopSends) <= 1
    /\ pc \in {"loop", "wait", "flush", "stop"} => StopSends = {}
    /\ \A i \in StopSends :
          /\ should_close
          /\ handled = Len(arrived)
          /\ \A j \in (i + 1)..Len(effects) : effects[j].op # "send"
          /\ Len(effects) > i
          /\ effects[i + 1] = Unpark
    /\ \A k \in 1..Len(channel) : channel[k] = Stop => k = Len(channel)
    /\ \A j \in 1..Len(effects) :
          effects[j] = JoinRender =>
              /\ j = Len(effects)
              /\ j > 2
              /\ effects[j - 1] = Unpark
              /\ effects[j - 2] = Send(Stop, TRUE)
    /\ pc = "returned" =>
          /\ Cardinality(StopSends) = 1
          /\ effects[Len(effects)] = JoinRender
          /\ channel # <<>>
          /\ channel[Len(channel)] = Stop
          /\ render = "stopped"

\* signals were forwarded, then the loop ended, Stop was sent and the thread joined
C17_Witness ==
    /\ pc = "returned"
    /\ Len(channel) = 3
    /\ channel[1] = Pause
    /\ channel[3] = Stop
    /\ Len(effects) > 3
    /\ SubSeq(effects, Len(effects) - 2, Len(effects)) = <<Send(Stop, TRUE), Unpark, JoinRender>>

(***************************************************************************)
(* C18: the calls main makes in its event loop are, event by event and in  *)
(* the order of arrival, the one reaction the table below gives for each   *)
(* handled event; the signals delivered are the signals of the sends that  *)
(* succeeded, in order.                                                    *)
(***************************************************************************)
Plain(effect) ==
    IF effect.op = "send" THEN [op |-> "send", signal |-> effect.signal] ELSE effect

Reaction(event) ==
    CASE event.tag = "Key" /\ event.key = "Escape" /\ event.action = "Press" ->
            <<SetShouldClose>>
      [] event.tag = "Key" /\ event.key = "F11" /\ event.action = "Press" ->
            <<ToggleFullscreen>>
      [] event.tag \in {"Size", "FramebufferSize"} /\ event.width > 0 /\ event.height > 0 ->
            <<[op |-> "send", signal |-> ViewportResize(event.width, event.height)], Unpark>>
      [] event.tag = "Iconify" /\ event.iconified ->
            <<[op |-> "send", signal |-> Pause], Unpark>>
      [] event.tag = "Focus" /\ event.focus ->
            <<[op |-> "send", signal |-> Resume], Unpark>>
      [] event.tag = "Focus" /\ ~event.focus ->
            <<[op |-> "send", signal |-> Pause], Unpark>>
      [] OTHER ->
            <<[op |-> "send", signal |-> Event(event)]>>

RECURSIVE Reactions(_, _)
Reactions(events, n) ==
    IF n = 0 THEN <<>> ELSE Reactions(events, n - 1) \o Reaction(events[n])

\* the calls made inside the event loop: all of them up to the send of Stop
LoopEffects ==
    IF StopSends = {} THEN effects
    ELSE SubSeq(effects, 1, (CHOOSE i \in StopSends : TRUE) - 1)

RECURSIVE Delivered(_, _)
Delivered(calls_made, n) ==
    IF n = 0 THEN <<>>
    ELSE IF calls_made[n].op = "send" /\ calls_made[n].ok
    THEN Append(Delivered(calls_made, n - 1), calls_made[n].signal)
    ELSE Delivered(calls_made, n - 1)

EscapePressed == \E i \in 1..handled : arrived[i] = Key("Escape", "Press")
F11Presses == Cardinality({i \in 1..handled : arrived[i] = Key("F11", "Press")})

C18_EventMapping ==
    /\ [i \in 1..Len(LoopEffects) |-> Plain(LoopEffects[i])] = Reactions(arrived, handled)
    /\ Delivered(effects, Len(effects)) = channel
    /\ EscapePressed => should_close
    /\ fullscreen = (F11Presses % 2 = 1)
    /\ \A i \in 1..Len(effects) :
          (effects[i].op = "send" /\ ~effects[i].ok) =>
              /\ pc = "panicked"
              /\ \A j \in (i + 1)..Len(effects) : effects[j] = Unpark

\* a restore forwarded as an event, a resize signalled, then Escape
C18_Witness ==
    /\ arrived = <<Iconify(FALSE), Size(800, 600), Key("Escape", "Press")>>
    /\ handled = 3
    /\ effects = <<Send(Event(Iconify(FALSE)), TRUE),
                   Send(ViewportResize(800, 600), TRUE), Unpark,
                   SetShouldClose>>
    /\ channel = <<Event(Iconify(FALSE)), ViewportResize(800, 600)>>
    /\ should_close

(***************************************************************************)
(* C19: when the texture viewer's loop receives Stop, that is the last     *)
(* thing it does: start returns Ok(()), no signal behind Stop is received, *)
(* no viewport is set and no buffer swapped after it, and a resize noted   *)
(* earlier in the same pass is not applied.  A pass that drains its batch  *)
(* without Stop sets the viewport at most once, to the last Resize it      *)
(* received, and keeps that size as the resolution.                        *)
(***************************************************************************)
LastIndex(op) == CHOOSE i \in 1..Len(trace) : trace[i].op = op /\ \A j \in (i + 1)..Len(trace) : trace[j].op # op

\* the current pass: what the loop has done since it last started over
Pass == SubSeq(trace, LastIndex("begin") + 1, Len(trace))

PassResizes ==
    {i \in 1..Len(Pass) : Pass[i].op = "recv" /\ Pass[i].signal.tag = "Resize"}

PassViewports == {i \in 1..Len(Pass) : Pass[i].op = "viewport"}

LastResize ==
    LET i == CHOOSE k \in PassResizes : \A j \in PassResizes : j <= k
    IN  <<Pass[i].signal.width, Pass[i].signal.height>>

C19_StopAndLastResize ==
    /\ \A i \in 1..Len(trace) :
          trace[i] = Received(Stop) =>
              /\ i = Len(trace)
              /\ vpc = "returned"
              /\ startResult = Ok(Unit)
              /\ PassViewports = {}
    /\ Cardinality(PassViewports) <= 1
    /\ \A v \in PassViewports :
          /\ PassResizes # {}
          /\ \A r \in PassResizes : r < v
          /\ Pass[v].size = LastResize
          /\ viewport = Some(LastResize)
          /\ resolution = <<as_u32(LastResize[1]), as_u32(LastResize[2])>>
    /\ (vpc \in {"draw", "parked"} /\ PassResizes # {}) => PassViewports # {}
    /\ Count("viewport") = 0 =>
          /\ viewport = None
          /\ resolution = <<as_u32(600), as_u32(800)>>
    /\ Count("viewport") > 0 => viewport = Some(trace[LastIndex("viewport")].size)

\* a Resize, then Stop, with one more signal behind it: nothing applied, nothing drawn
C19_Witness ==
    /\ trace = <<Begin, Received(Resize(640, 480)), Received(Stop)>>
    /\ rx = <<Resize(800, 600)>>
    /\ viewport_size = Some(<<640, 480>>)
    /\ viewport = None
    /\ vpc = "returned"
    /\ startResult = Ok(Unit)


====
